---- MODULE Spec2Model ----
(***************************************************************************)
(* The clip editor of frontend/src/app/create/page.tsx (CreatePage): the   *)
(* workflow state (appState), the polling of the job status, finalize,     *)
(* reset, and the timeline drag gestures on the editing clips.             *)
(*                                                                         *)
(* Times are whole seconds. Pointer positions are pixels, multiples of 10, *)
(* so that (deltaX / timelineWidth) * videoDuration is a whole number of   *)
(* seconds for the 1200 px wide timeline and the 120 s timeline duration.  *)
(* Array indices are 0-based as in the source: clip i is editingClips[i+1].*)
(***************************************************************************)
EXTENDS Integers, Sequences, FiniteSets, TLC

VARIABLES
    appState,                  \* useState<AppState>('input')
    jobId,                     \* useState<string>('')
    jobStatus,                 \* useState<JobStatusResponse | null>(null)
    error,                     \* useState<string>('')
    isSubmitting,              \* useState(false)
    currentClipIndex,          \* useState(0)
    editingClips,              \* useState<EditingClip[]>([])
    finalizedClips,            \* useState<Clip[]>([])
    currentTime,               \* useState(0)
    videoDuration,             \* useState(0)
    isDragging,                \* useState({type: 'none', clipIndex: -1})
    dragStartX,                \* useState(0)
    dragStartValue,            \* useState(0)
    isPreventingTimelineClick, \* useState(false)
    isFinalizingClips,         \* useState(false)
    listeners,                 \* the mousemove/mouseup closures installed on document
    debounceTimers,            \* pending setTimeout(..., 150) callbacks
    submitCalls,               \* outstanding apiService.startProcessing calls
    statusCalls,               \* outstanding apiService.getJobStatus calls, per job id
    finalizeCalls,             \* outstanding apiService.finalizeClips calls (requests)
    videoLoaded,               \* the mounted <video> has fired loadedmetadata
    videoTime,                 \* videoRef.current.currentTime
    jobsStarted,               \* the jobs the server has accepted so far
    serverJobs,                \* the server's status of each job
    presses,                   \* the drag gestures started so far
    captionsModalOpen,         \* useState(false)
    selectedClipForCaptions,   \* useState<EditingClip | null>(null)
    captionsModal,             \* the state of the mounted CaptionsModal component
    generateCalls,             \* outstanding apiService.generateCaptions calls
    applyCalls,                \* outstanding apiService.applyCaptions calls
    opens,                     \* the times handleOpenCaptions has run so far
    generated,                 \* the caption lists created so far (generate answers)
    edits,                     \* the segments opened for editing so far
    lastResponse               \* history: the API completion, or the ignored finalize, handled last

vars == <<appState, jobId, jobStatus, error, isSubmitting, currentClipIndex,
          editingClips, finalizedClips, currentTime, videoDuration, isDragging,
          dragStartX, dragStartValue, isPreventingTimelineClick,
          isFinalizingClips, listeners, debounceTimers, submitCalls,
          statusCalls, finalizeCalls, videoLoaded, videoTime, jobsStarted, serverJobs,
          presses, captionsModalOpen, selectedClipForCaptions, captionsModal,
          generateCalls, applyCalls, opens, generated, edits, lastResponse>>

\* The caption editor: the page's two useState cells, the CaptionsModal instance
\* and its calls
captionVars == <<captionsModalOpen, selectedClipForCaptions, captionsModal,
                 generateCalls, applyCalls, opens, generated, edits>>

----------------------------------------------------------------------------
(* Program constants *)

TimelineSeconds == 120
TimelineWidth == 1200
MinClipSeconds == 1

(* Bounds of the model *)

MaxStatusCalls == 2
MaxJobs == 2
MaxGestures == 2
MaxOpens == 2
MaxGenerates == 1
MaxEdits == 1

(* Inputs *)

NoJob == 0
JobIds == 1..MaxJobs
Missing == -1
PointerXs == {0, 100}
ServerMessages == {"x"}
TransportErrors == {"Failed to fetch"}

\* A record without a path (clip.url_path || clip.path || ''), and the
\* originalPath of a clip that has none
NoPath == ""

\* defaultCaptionStyle, which is also the style of captionPresets[0]
DefaultCaptionStyle == 0
CaptionPresets == {0, 1}

\* A record of results as the server sends it; its duration is the length of
\* the span when both bounds are present
RawClip(id, s, e, p) ==
    [id |-> id, start_time |-> s, end_time |-> e, path |-> p,
     duration |-> IF s = Missing \/ e = Missing THEN Missing ELSE e - s]

RawResults ==
    { <<RawClip("1", 0, 10, "/clips/1.mp4"), RawClip("2", 10, 20, NoPath)>>,
      <<RawClip("1", 0, 10, "/clips/1.mp4"), RawClip("2", 5, 20, "/clips/2.mp4")>>,
      <<RawClip("1", Missing, 10, "/clips/1.mp4"), RawClip("2", 130, 130, "/clips/2.mp4")>>,
      <<>> }

FinalizedClip(id, p) == [id |-> id, path |-> p]

FinalizedLists ==
    { <<>>,
      <<FinalizedClip("1", "/finalized/1.mp4")>>,
      <<FinalizedClip("1", "/finalized/1.mp4"), FinalizedClip("2", "/finalized/2.mp4")>> }

----------------------------------------------------------------------------
(* Helpers *)

Max2(a, b) == IF a >= b THEN a ELSE b
Min2(a, b) == IF a <= b THEN a ELSE b

\* Math.max(first, ...rest) and Math.min(first, ...rest)
MathMax(first, rest) ==
    CHOOSE m \in rest \cup {first} : \A v \in rest \cup {first} : v <= m
MathMin(first, rest) ==
    CHOOSE m \in rest \cup {first} : \A v \in rest \cup {first} : m <= v

\* v || 0 for a number that may be absent
OrZero(v) == IF v = Missing THEN 0 ELSE v

EndsWithMp4(p) ==
    p \in {"/clips/1.mp4", "/clips/2.mp4", "/finalized/1.mp4", "/finalized/2.mp4",
           "/captioned/1.mp4", "/captioned/2.mp4"}

NoStatus == [status |-> "null", message |-> "", results |-> <<>>]

NoResponse == [call |-> "none", outcome |-> "", message |-> "", clips |-> <<>>]
Response(c, o, m, l) == [call |-> c, outcome |-> o, message |-> m, clips |-> l]

NoCalls == [j \in JobIds |-> 0]
RECURSIVE SumCalls(_, _)
SumCalls(calls, n) == IF n = 0 THEN 0 ELSE calls[n] + SumCalls(calls, n - 1)
TotalStatusCalls(calls) == SumCalls(calls, MaxJobs)

HasClip(clips, i) == 0 <= i /\ i < Len(clips)
ClipAt(clips, i) == clips[i + 1]

\* selectedClipForCaptions === null
NoClip == [id |-> "null"]

\* No CaptionsModal is mounted
Unmounted ==
    [mounted |-> FALSE, instance |-> 0, captions |-> <<>>,
     captionStyle |-> DefaultCaptionStyle, isGenerating |-> FALSE,
     isApplying |-> FALSE, editingIndex |-> -1, editingText |-> ""]

\* useState(clip.captions || []), useState(clip.captionStyle || defaultCaptionStyle),
\* useState(false), useState(false), useState<number | null>(null), useState('')
\* of a CaptionsModal that mounts for clip; -1 stands for editingIndex null
MountedModal(clip, instance) ==
    [mounted |-> TRUE,
     instance |-> instance,
     captions |-> clip.captions,
     captionStyle |-> clip.captionStyle,
     isGenerating |-> FALSE,
     isApplying |-> FALSE,
     editingIndex |-> -1,
     editingText |-> ""]

----------------------------------------------------------------------------
(* Rendering conditions *)

\* {appState === 'editing' && editingClips.length > 0 && ( ... timelineRef ... )}
TimelineMounted == appState = "editing" /\ Len(editingClips) > 0

\* {editingClips[currentClipIndex]?.path.endsWith('.mp4') ? <video ref={videoRef} .../> : ...}
VideoMountedIn(a, clips, i) ==
    /\ a = "editing"
    /\ Len(clips) > 0
    /\ HasClip(clips, i)
    /\ EndsWithMp4(ClipAt(clips, i).path)

VideoMounted == VideoMountedIn(appState, editingClips, currentClipIndex)

\* key={`video-${currentClipIndex}-${id}-${path}`}: a new key mounts a new element
VideoKeyIn(a, clips, i) ==
    IF VideoMountedIn(a, clips, i)
    THEN [mounted |-> TRUE, index |-> i, id |-> ClipAt(clips, i).id,
          path |-> ClipAt(clips, i).path]
    ELSE [mounted |-> FALSE, index |-> 0, id |-> "", path |-> ""]

\* {selectedClipForCaptions && jobId && (<CaptionsModal .../>)}
ModalMountedIn(selected, j) == selected # NoClip /\ j # NoJob

\* if (!isOpen) return null: the overlay (fixed inset-0 z-50) covers the page
ModalVisible ==
    /\ ModalMountedIn(selectedClipForCaptions, jobId)
    /\ captionsModalOpen
    /\ captionsModal.mounted

\* The CaptionsModal after a render: it mounts with fresh state, keeps its state
\* while it stays mounted, and loses it when it unmounts.
ModalRender ==
    captionsModal' =
        IF ModalMountedIn(selectedClipForCaptions', jobId')
        THEN IF captionsModal.mounted THEN captionsModal
             ELSE MountedModal(selectedClipForCaptions', opens')
        ELSE Unmounted

\* The <video> element after a render: a remounted element has not loaded its
\* metadata and plays from 0.
VideoRemount(t) ==
    LET same == VideoKeyIn(appState', editingClips', currentClipIndex')
                  = VideoKeyIn(appState, editingClips, currentClipIndex)
    IN /\ videoLoaded' = (videoLoaded /\ same)
       /\ videoTime' = IF same THEN t ELSE 0

----------------------------------------------------------------------------
(* Polling: useEffect(..., [appState, jobId, isFinalizingClips]) *)

\* Mutant: the effect's guard without the isFinalizingClips test
PollGuardNoFinalizeTest(a, j, f) == a = "processing" /\ j # NoJob

PollGuard(a, j, f) == a = "processing" /\ j # NoJob /\ ~f

\* The effect after a render: when a dependency changed the old interval is
\* cleared, and if the guard passes pollStatus() is called at once.
PollEffect(calls) ==
    statusCalls' =
        IF /\ <<appState', jobId', isFinalizingClips'>> # <<appState, jobId, isFinalizingClips>>
           /\ PollGuard(appState', jobId', isFinalizingClips')
        THEN [calls EXCEPT ![jobId'] = @ + 1]
        ELSE calls

\* setInterval(pollStatus, 3000): a tick while the interval is installed
PollTick ==
    /\ PollGuard(appState, jobId, isFinalizingClips)
    /\ TotalStatusCalls(statusCalls) < MaxStatusCalls
    /\ statusCalls' = [statusCalls EXCEPT ![jobId] = @ + 1]
    /\ UNCHANGED <<appState, jobId, jobStatus, error, isSubmitting, currentClipIndex,
                   editingClips, finalizedClips, currentTime, videoDuration,
                   isDragging, dragStartX, dragStartValue, isPreventingTimelineClick,
                   isFinalizingClips, listeners, debounceTimers, submitCalls,
                   finalizeCalls, videoLoaded, videoTime, jobsStarted, serverJobs, presses,
                   lastResponse>>
    /\ UNCHANGED captionVars

\* formatTime: `${mins padded}:${secs padded}`, as the pair of its two numbers
FormatTime(seconds) == <<seconds \div 60, seconds % 60>>

\* formatDuration: `${mins}:${secs padded}` from one minute on, `${secs}s` below
FormatDuration(seconds) ==
    IF seconds \div 60 > 0
    THEN <<"m:ss", seconds \div 60, seconds % 60>>
    ELSE <<"s", seconds % 60>>

\* processClips: the fields of a clip the editor works with
ProcessClip(raw) ==
    [id |-> raw.id,
     startTime |-> FormatTime(OrZero(raw.start_time)),
     endTime |-> FormatTime(OrZero(raw.end_time)),
     duration |-> FormatDuration(OrZero(raw.duration)),
     path |-> raw.path,
     start_time |-> OrZero(raw.start_time),
     end_time |-> OrZero(raw.end_time),
     captions |-> <<>>,
     captionStyle |-> DefaultCaptionStyle]

ProcessClips(results) == [k \in 1..Len(results) |-> ProcessClip(results[k])]

\* editingClipsData in pollStatus
EditingClipOf(clip) ==
    [id |-> clip.id,
     startTime |-> clip.startTime,
     endTime |-> clip.endTime,
     duration |-> clip.duration,
     path |-> clip.path,
     start_time |-> clip.start_time,
     end_time |-> clip.end_time,
     originalStart |-> clip.start_time,
     originalEnd |-> clip.end_time,
     editedStart |-> clip.start_time,
     editedEnd |-> clip.end_time,
     captions |-> clip.captions,
     captionStyle |-> clip.captionStyle,
     originalPath |-> NoPath]

EditingClipsData(results) ==
    [k \in 1..Len(results) |-> EditingClipOf(ProcessClips(results)[k])]

\* Mutant: the failed branch stores the fallback text of the catch block
PollStatusErrorFallback(status) == "Failed to get job status"

\* setError(status.message) of the failed branch of pollStatus
PollStatusError(status) == status.message

\* Mutant: the failed branch is missing
PollAnswerOnlyComplete(status) ==
    /\ jobStatus' = status
    /\ IF status.status = "complete"
       THEN /\ editingClips' = EditingClipsData(status.results)
            /\ appState' = "editing"
            /\ error' = error
       ELSE UNCHANGED <<editingClips, appState, error>>

\* pollStatus past its await: setJobStatus(status) and the two branches
PollAnswer(status) ==
    /\ jobStatus' = status
    /\ IF status.status = "complete"
       THEN /\ editingClips' = EditingClipsData(status.results)
            /\ appState' = "editing"
            /\ error' = error
       ELSE IF status.status = "failed"
       THEN /\ error' = PollStatusError(status)
            /\ appState' = "error"
            /\ editingClips' = editingClips
       ELSE UNCHANGED <<editingClips, appState, error>>

\* Mutant: the catch block stores the message and leaves the workflow state,
\* so the interval keeps asking
PollThrowsKeepsPolling(msg) ==
    /\ error' = msg
    /\ appState' = appState
    /\ UNCHANGED <<jobStatus, editingClips>>

\* catch of pollStatus: setError(...); setAppState('error')
PollThrows(msg) ==
    /\ error' = msg
    /\ appState' = "error"
    /\ UNCHANGED <<jobStatus, editingClips>>

\* JobStatusResponse: {status, message, results?}
StillProcessing == [status |-> "processing", message |-> "working", results |-> <<>>]

StatusAnswers ==
    {StillProcessing}
    \cup {[status |-> "complete", message |-> "done", results |-> r] : r \in RawResults}
    \cup {[status |-> "failed", message |-> m, results |-> <<>>] : m \in ServerMessages}

\* GET /status/{jobId}: a job that is complete or failed stays so, with the same
\* results; a job still processing may have finished by the time it is asked.
ServerAnswers(j) ==
    IF serverJobs[j].status = "processing" THEN StatusAnswers ELSE {serverJobs[j]}

PollFrame(calls) ==
    /\ UNCHANGED <<jobId, isSubmitting, currentClipIndex, finalizedClips, currentTime,
                   videoDuration, isDragging, dragStartX, dragStartValue,
                   isPreventingTimelineClick, isFinalizingClips, listeners,
                   debounceTimers, submitCalls, finalizeCalls, jobsStarted, presses>>
    /\ UNCHANGED captionVars
    /\ PollEffect(calls)
    /\ VideoRemount(videoTime)

\* await apiService.getJobStatus(jobId) resolves with a status
PollResolvedWith(j, status) ==
    /\ statusCalls[j] > 0
    /\ serverJobs' = [serverJobs EXCEPT ![j] = status]
    /\ lastResponse' = Response("status", status.status, status.message, <<>>)
    /\ PollAnswer(status)
    /\ PollFrame([statusCalls EXCEPT ![j] = @ - 1])

PollResolved ==
    \E j \in JobIds : \E status \in ServerAnswers(j) : PollResolvedWith(j, status)

\* A status query is answered complete or failed
JobAnswers ==
    \E j \in JobIds :
        \E status \in ServerAnswers(j) :
            status.status # "processing" /\ PollResolvedWith(j, status)

\* await apiService.getJobStatus(jobId) rejects
PollRejected ==
    \E j \in JobIds, msg \in TransportErrors :
        /\ statusCalls[j] > 0
        /\ serverJobs' = serverJobs
        /\ lastResponse' = Response("status", "throw", msg, <<>>)
        /\ PollThrows(msg)
        /\ PollFrame([statusCalls EXCEPT ![j] = @ - 1])

----------------------------------------------------------------------------
(* Submit: handleSubmit *)

\* The form is rendered in the input state; the form data is taken to be valid.
HandleSubmit ==
    /\ appState = "input"
    /\ ~isSubmitting
    /\ jobsStarted < MaxJobs
    /\ isSubmitting' = TRUE
    /\ error' = ""
    /\ submitCalls' = submitCalls + 1
    /\ UNCHANGED <<appState, jobId, jobStatus, currentClipIndex, editingClips,
                   finalizedClips, currentTime, videoDuration, isDragging, dragStartX,
                   dragStartValue, isPreventingTimelineClick, isFinalizingClips,
                   listeners, debounceTimers, statusCalls, finalizeCalls, videoLoaded,
                   videoTime, jobsStarted, serverJobs, presses,
                   lastResponse>>
    /\ UNCHANGED captionVars

SubmitFrame ==
    /\ isSubmitting' = FALSE
    /\ submitCalls' = submitCalls - 1
    /\ UNCHANGED <<currentClipIndex, editingClips, finalizedClips, currentTime,
                   videoDuration, isDragging, dragStartX, dragStartValue,
                   isPreventingTimelineClick, isFinalizingClips, listeners,
                   debounceTimers, finalizeCalls, serverJobs, presses>>
    /\ UNCHANGED <<captionsModalOpen, selectedClipForCaptions, generateCalls,
                   applyCalls, opens, generated, edits>>
    /\ ModalRender
    /\ PollEffect(statusCalls)
    /\ VideoRemount(videoTime)

\* await apiService.startProcessing(...) resolves
SubmitResolved ==
    \E j \in {jobsStarted + 1} :
        /\ submitCalls > 0
        /\ jobsStarted' = j
        /\ lastResponse' = Response("submit", "accepted", "started", <<>>)
        /\ jobId' = j
        /\ appState' = "processing"
        /\ jobStatus' = [status |-> "processing", message |-> "started", results |-> <<>>]
        /\ error' = error
        /\ SubmitFrame

\* await apiService.startProcessing(...) rejects
SubmitRejected ==
    \E msg \in TransportErrors :
        /\ submitCalls > 0
        /\ error' = msg
        /\ appState' = "error"
        /\ UNCHANGED <<jobId, jobStatus, jobsStarted>>
        /\ lastResponse' = Response("submit", "throw", msg, <<>>)
        /\ SubmitFrame

----------------------------------------------------------------------------
(* Reset: handleReset *)

\* The reset buttons: "Try Again" of the error view, "Create New Project" of the
\* complete view (rendered when finalizedClips.length > 0). A visible caption
\* editor covers the page, and its controls with it.
ResetRendered ==
    \/ appState = "error"
    \/ appState = "complete" /\ Len(finalizedClips) > 0

HandleReset ==
    /\ ResetRendered
    /\ ~ModalVisible
    /\ appState' = "input"
    /\ jobId' = NoJob
    /\ jobStatus' = NoStatus
    /\ error' = ""
    /\ currentClipIndex' = 0
    /\ editingClips' = <<>>
    /\ finalizedClips' = <<>>
    /\ currentTime' = 0
    /\ videoDuration' = 0
    /\ UNCHANGED <<isSubmitting, isDragging, dragStartX, dragStartValue,
                   isPreventingTimelineClick, isFinalizingClips, listeners,
                   debounceTimers, submitCalls, finalizeCalls, jobsStarted, serverJobs, presses,
                   lastResponse>>
    /\ UNCHANGED <<captionsModalOpen, selectedClipForCaptions, generateCalls,
                   applyCalls, opens, generated, edits>>
    /\ ModalRender
    /\ PollEffect(statusCalls)
    /\ VideoRemount(videoTime)

----------------------------------------------------------------------------
(* Finalize: handleFinalize *)

\* formattedEditingClips
FormattedEditingClips(clips) ==
    [k \in 1..Len(clips) |->
        [id |-> clips[k].id,
         startTime |-> clips[k].startTime,
         endTime |-> clips[k].endTime,
         duration |-> clips[k].duration,
         path |-> clips[k].path,
         start_time |-> clips[k].start_time,
         end_time |-> clips[k].end_time,
         originalStart |-> clips[k].originalStart,
         originalEnd |-> clips[k].originalEnd,
         editedStart |-> clips[k].editedStart,
         editedEnd |-> clips[k].editedEnd,
         captions |-> clips[k].captions,
         captionStyle |-> clips[k].captionStyle,
         hasCaptionedVersion |-> Len(clips[k].captions) > 0]]

\* Mutant: handleFinalize without the isFinalizingClips guard
FinalizeIgnoredNoFlag == jobId = NoJob

\* if (!jobId) return; if (isFinalizingClips) return;
FinalizeIgnored == jobId = NoJob \/ isFinalizingClips

\* handleFinalize is invoked from the "Finalize All Clips" button of the editing
\* view. The button carries disabled={isFinalizingClips}; the handler tests the flag
\* itself as well, and it is the handler's test that is modelled: an invocation
\* with the flag set returns at once.
HandleFinalize ==
    /\ TimelineMounted
    /\ ~ModalVisible
    /\ UNCHANGED captionVars
    /\ UNCHANGED <<jobId, error, isSubmitting, currentClipIndex, editingClips,
                   finalizedClips, currentTime, videoDuration, isDragging, dragStartX,
                   dragStartValue, isPreventingTimelineClick, listeners,
                   debounceTimers, submitCalls, jobsStarted, serverJobs, presses>>
    /\ IF FinalizeIgnored
       THEN /\ lastResponse' = Response("finalize", "ignored", "", <<>>)
            /\ UNCHANGED <<appState, jobStatus, isFinalizingClips, finalizeCalls,
                           statusCalls, videoLoaded, videoTime>>
       ELSE /\ lastResponse' = lastResponse
            /\ isFinalizingClips' = TRUE
            /\ appState' = "processing"
            /\ jobStatus' = [status |-> "processing",
                             message |-> "Finalizing clips with your edits...",
                             results |-> <<>>]
            /\ finalizeCalls' = Append(finalizeCalls,
                   [jobId |-> jobId, edited_clips |-> FormattedEditingClips(editingClips)])
            /\ PollEffect(statusCalls)
            /\ VideoRemount(videoTime)

FinalizeAnswers ==
    {[status |-> "success", message |-> "ok", finalized_clips |-> l] : l \in FinalizedLists}
    \cup {[status |-> "error", message |-> m, finalized_clips |-> <<>>] :
              m \in ServerMessages \cup {""}}

\* The message of the catch block of handleFinalize
FinalizeError(msg) ==
    IF msg = "Failed to fetch"
    THEN "Network error during finalization. Please check your connection and try again."
    ELSE "Finalization failed: " \o msg

\* throw new Error(finalizeResponse.message || 'Failed to finalize clips')
FinalizeThrown(resp) == IF resp.message = "" THEN "Failed to finalize clips" ELSE resp.message

\* Mutant: the returned clips are appended to the list already held
FinalizedMerged(old, returned) == old \o returned

\* The success branch: setFinalizedClips(finalizeResponse.finalized_clips)
FinalizedAfter(old, returned) == returned

FinalizeFails(msg) ==
    /\ error' = FinalizeError(msg)
    /\ appState' = "error"
    /\ UNCHANGED <<finalizedClips, jobStatus>>

FinalizeAnswer(resp) ==
    IF resp.status = "success"
    THEN /\ finalizedClips' = FinalizedAfter(finalizedClips, resp.finalized_clips)
         /\ appState' = "complete"
         /\ jobStatus' = [status |-> "complete",
                          message |-> "All clips finalized successfully!",
                          results |-> resp.finalized_clips]
         /\ error' = error
    ELSE FinalizeFails(FinalizeThrown(resp))

\* finally { setIsFinalizingClips(false) }
FinalizeFinally == isFinalizingClips' = FALSE

FinalizeFrame ==
    /\ FinalizeFinally
    /\ finalizeCalls' = Tail(finalizeCalls)
    /\ UNCHANGED <<jobId, isSubmitting, currentClipIndex, editingClips, currentTime,
                   videoDuration, isDragging, dragStartX, dragStartValue,
                   isPreventingTimelineClick, listeners, debounceTimers, submitCalls,
                   jobsStarted, serverJobs, presses>>
    /\ UNCHANGED captionVars
    /\ PollEffect(statusCalls)
    /\ VideoRemount(videoTime)

\* await apiService.finalizeClips(...) resolves with a response body
FinalizeResolved ==
    \E resp \in FinalizeAnswers :
        /\ Len(finalizeCalls) > 0
        /\ FinalizeAnswer(resp)
        /\ lastResponse' = Response("finalize", resp.status, resp.message, resp.finalized_clips)
        /\ FinalizeFrame

\* await apiService.finalizeClips(...) rejects (fetch fails, or !response.ok)
FinalizeRejected ==
    \E msg \in TransportErrors :
        /\ Len(finalizeCalls) > 0
        /\ FinalizeFails(msg)
        /\ lastResponse' = Response("finalize", "throw", msg, <<>>)
        /\ FinalizeFrame

----------------------------------------------------------------------------
(* Timeline drag: handleTimelineMouseDown and its two document listeners *)

NotDragging == [type |-> "none", clipIndex |-> -1]

\* What handleMouseMove and handleMouseUp close over: the values of the render
\* in which handleTimelineMouseDown ran. The setDragStartX / setDragStartValue /
\* setEditingClips calls of later renders do not reach them.
Closure(dragType, clipIndex) ==
    [dragType |-> dragType,
     clipIndex |-> clipIndex,
     dragStartX |-> dragStartX,
     dragStartValue |-> dragStartValue,
     editingClips |-> editingClips,
     videoDuration |-> videoDuration]

\* const deltaTime = (deltaX / timelineWidth) * videoDuration
DeltaTime(deltaX, duration) == (deltaX * duration) \div TimelineWidth

OtherClips(clips, clipIndex) == {i \in 0..(Len(clips) - 1) : i # clipIndex}

\* Math.max(0, ...otherClips.map(c => c.editedEnd).filter(end => end <= clip.editedStart))
MinBound(clips, clipIndex) ==
    MathMax(0, {ClipAt(clips, i).editedEnd : i \in
                  {o \in OtherClips(clips, clipIndex) :
                      ClipAt(clips, o).editedEnd <= ClipAt(clips, clipIndex).editedStart}})

\* Math.min(videoDuration, ...otherClips.map(c => c.editedStart).filter(start => start >= clip.editedEnd))
MaxBound(clips, clipIndex, duration) ==
    MathMin(duration, {ClipAt(clips, i).editedStart : i \in
                  {o \in OtherClips(clips, clipIndex) :
                      ClipAt(clips, o).editedStart >= ClipAt(clips, clipIndex).editedEnd}})

TrimStart(clip, minBound, requested) ==
    [clip EXCEPT !.editedStart =
        Max2(minBound, Min2(clip.editedEnd - MinClipSeconds, requested))]

TrimEnd(clip, maxBound, requested) ==
    [clip EXCEPT !.editedEnd =
        Min2(maxBound, Max2(clip.editedStart + MinClipSeconds, requested))]

MoveClip(clip, minBound, maxBound, requested) ==
    LET clipDuration == clip.editedEnd - clip.editedStart
        newStart == Max2(minBound, Min2(maxBound - clipDuration, requested))
    IN [clip EXCEPT !.editedStart = newStart, !.editedEnd = newStart + clipDuration]

\* The array handleMouseMove passes to setEditingClips for a pointer at clientX
NewClips(c, clientX) ==
    LET clip == ClipAt(c.editingClips, c.clipIndex)
        requested == c.dragStartValue + DeltaTime(clientX - c.dragStartX, c.videoDuration)
        minBound == MinBound(c.editingClips, c.clipIndex)
        maxBound == MaxBound(c.editingClips, c.clipIndex, c.videoDuration)
        edited == IF c.dragType = "start" THEN TrimStart(clip, minBound, requested)
                  ELSE IF c.dragType = "end" THEN TrimEnd(clip, maxBound, requested)
                  ELSE MoveClip(clip, minBound, maxBound, requested)
    IN [c.editingClips EXCEPT ![c.clipIndex + 1] = edited]

\* All installed mousemove listeners run, in the order they were added; each
\* returns early without the timeline or without its clip.
RECURSIVE AfterMoves(_, _, _)
AfterMoves(clips, ls, clientX) ==
    IF ls = <<>> THEN clips
    ELSE AfterMoves(IF HasClip(Head(ls).editingClips, Head(ls).clipIndex)
                    THEN NewClips(Head(ls), clientX) ELSE clips,
                    Tail(ls), clientX)

DragFrame ==
    /\ UNCHANGED <<appState, jobId, jobStatus, error, isSubmitting, finalizedClips,
                   videoDuration, isFinalizingClips, submitCalls, statusCalls,
                   finalizeCalls, jobsStarted, serverJobs, lastResponse>>
    /\ UNCHANGED captionVars

\* Mutant: the selection moves and the playhead stays
NavigateKeepsTime(clipIndex) ==
    /\ currentClipIndex' = clipIndex
    /\ currentTime' = currentTime
    /\ UNCHANGED <<editingClips, isDragging, dragStartX, dragStartValue,
                   isPreventingTimelineClick, listeners, debounceTimers>>

\* setCurrentClipIndex(clipIndex); ... setCurrentTime(clip.editedStart)
NavigateToClip(clipIndex) ==
    /\ currentClipIndex' = clipIndex
    /\ currentTime' = IF HasClip(editingClips, clipIndex)
                      THEN ClipAt(editingClips, clipIndex).editedStart
                      ELSE currentTime
    /\ UNCHANGED <<editingClips, isDragging, dragStartX, dragStartValue,
                   isPreventingTimelineClick, listeners, debounceTimers>>

\* handleTimelineMouseDown(e, dragType, clipIndex) past its guard
StartDrag(dragType, clipIndex, clientX) ==
    /\ isDragging' = [type |-> dragType, clipIndex |-> clipIndex]
    /\ dragStartX' = clientX
    /\ isPreventingTimelineClick' = TRUE
    /\ dragStartValue' =
         IF ~HasClip(editingClips, clipIndex) THEN dragStartValue
         ELSE IF dragType = "end" THEN ClipAt(editingClips, clipIndex).editedEnd
         ELSE ClipAt(editingClips, clipIndex).editedStart
    /\ listeners' = Append(listeners, Closure(dragType, clipIndex))
    /\ presses' = presses + 1
    /\ UNCHANGED <<currentClipIndex, currentTime, editingClips, debounceTimers>>

\* Mutant: a press on any clip starts a drag
PressesAnyClip(clipIndex) == TRUE

\* if (clipIndex === currentClipIndex) in the clip's onMouseDown, which the guard
\* of handleTimelineMouseDown repeats
PressesSelectedClip(clipIndex) == clipIndex = currentClipIndex

\* onMouseDown of a clip's body: drag the selected clip, select any other
ClipMouseDownAt(clipIndex, clientX) ==
    /\ TimelineMounted
    /\ ~ModalVisible
    /\ presses < MaxGestures
    /\ IF PressesSelectedClip(clipIndex)
       THEN StartDrag("move", clipIndex, clientX)
       ELSE NavigateToClip(clipIndex) /\ presses' = presses
    /\ DragFrame
    /\ VideoRemount(videoTime)

ClipMouseDown ==
    \E clipIndex \in 0..(Len(editingClips) - 1), clientX \in PointerXs :
        ClipMouseDownAt(clipIndex, clientX)

\* onMouseDown of the left / right resize handle, rendered on the selected clip
HandleMouseDown ==
    \E dragType \in {"start", "end"}, clientX \in PointerXs :
        /\ TimelineMounted
        /\ ~ModalVisible
        /\ HasClip(editingClips, currentClipIndex)
        /\ presses < MaxGestures
        /\ StartDrag(dragType, currentClipIndex, clientX)
        /\ DragFrame
        /\ UNCHANGED <<videoLoaded, videoTime>>

\* onClick of a card of the clip selector
SelectorClickAt(clipIndex) ==
    /\ TimelineMounted
    /\ ~ModalVisible
    /\ NavigateToClip(clipIndex)
    /\ presses' = presses
    /\ DragFrame
    /\ VideoRemount(videoTime)

SelectorClick ==
    \E clipIndex \in 0..(Len(editingClips) - 1) : SelectorClickAt(clipIndex)

\* a mousemove event on document while listeners are installed
MouseMoveAt(clientX) ==
    /\ listeners # <<>>
    /\ editingClips' = IF TimelineMounted
                       THEN AfterMoves(editingClips, listeners, clientX)
                       ELSE editingClips
    /\ UNCHANGED <<currentClipIndex, currentTime, isDragging, dragStartX,
                   dragStartValue, isPreventingTimelineClick, listeners,
                   debounceTimers, presses>>
    /\ DragFrame
    /\ VideoRemount(videoTime)

MouseMove == \E clientX \in PointerXs : MouseMoveAt(clientX)

\* Mutant: a release leaves the listeners installed
ListenersKept(ls) == ls

\* document.removeEventListener('mousemove', handleMouseMove) and ('mouseup',
\* handleMouseUp), run by each installed handleMouseUp for its own pair
ListenersRemoved(ls) == SelectSeq(ls, LAMBDA l : FALSE)

\* a mouseup event on document: every installed handleMouseUp runs
MouseUp ==
    /\ listeners # <<>>
    /\ isDragging' = NotDragging
    /\ debounceTimers' = debounceTimers + Len(listeners)
    /\ listeners' = ListenersRemoved(listeners)
    /\ UNCHANGED <<currentClipIndex, currentTime, editingClips, dragStartX,
                   dragStartValue, isPreventingTimelineClick, videoLoaded, videoTime,
                   presses>>
    /\ DragFrame

\* setTimeout(() => setIsPreventingTimelineClick(false), 150) fires
DebounceTimeout ==
    /\ debounceTimers > 0
    /\ debounceTimers' = debounceTimers - 1
    /\ isPreventingTimelineClick' = FALSE
    /\ UNCHANGED <<currentClipIndex, currentTime, editingClips, isDragging, dragStartX,
                   dragStartValue, listeners, videoLoaded, videoTime, presses>>
    /\ DragFrame

----------------------------------------------------------------------------
(* Captions: handleOpenCaptions, the CaptionsModal component, handleCaptionsApplied *)

\* Caption times are tenths of a second. obj names the object a segment is: the
\* arrays that hold the same object see the text saveEdit writes into it.
Segment(s, e, t) == [start |-> s, end |-> e, text |-> t]

\* response.captions of generateCaptions
GenerateAnswers == { <<Segment(0, 30, "hello")>>, <<>> }

\* Mutant: the catch block stores no captions
NoMockCaptions == <<>>

\* mockCaptions of the catch block of handleGenerateCaptions
MockCaptions ==
    <<Segment(0, 25, "This will blow your mind!"),
      Segment(25, 50, "You won't believe what happens next"),
      Segment(50, 75, "Game changing technique revealed"),
      Segment(75, 100, "Your life will never be the same")>>

\* What the user types into the text input of a segment
TypedTexts == {"typed"}

\* response.previewUrl of applyCaptions; NoPath when the answer carries none
PreviewUrls == {"/captioned/1.mp4", "/captioned/2.mp4", NoPath}

\* The objects of a caption list that has just been created
NewObjects(list, g) ==
    [k \in 1..Len(list) |->
        [start |-> list[k].start, end |-> list[k].end, text |-> list[k].text,
         obj |-> <<g, k>>]]

\* newCaptions[editingIndex].text = editingText, seen through an array caps that
\* may hold the object written to
SetText(caps, obj, text) ==
    [k \in 1..Len(caps) |->
        IF caps[k].obj = obj THEN [caps[k] EXCEPT !.text = text] ELSE caps[k]]

\* The state the handlers of the caption editor leave alone
CaptionFrame ==
    UNCHANGED <<appState, jobId, jobStatus, error, isSubmitting, currentClipIndex,
                finalizedClips, currentTime, videoDuration, isDragging, dragStartX,
                dragStartValue, isPreventingTimelineClick, isFinalizingClips,
                debounceTimers, submitCalls, statusCalls, finalizeCalls, jobsStarted,
                serverJobs, presses>>

\* A handler of the CaptionsModal that only sets state of the modal
ModalFrame ==
    /\ CaptionFrame
    /\ UNCHANGED <<editingClips, listeners, videoLoaded, videoTime, lastResponse,
                   captionsModalOpen, selectedClipForCaptions, opens>>

\* handleOpenCaptions(editingClips[currentClipIndex]): the "Add Captions" button
HandleOpenCaptions ==
    /\ TimelineMounted
    /\ ~ModalVisible
    /\ opens < MaxOpens
    /\ opens' = opens + 1
    /\ selectedClipForCaptions' =
         IF HasClip(editingClips, currentClipIndex)
         THEN ClipAt(editingClips, currentClipIndex) ELSE NoClip
    /\ captionsModalOpen' = TRUE
    /\ CaptionFrame
    /\ UNCHANGED <<editingClips, listeners, videoLoaded, videoTime, lastResponse,
                   generateCalls, applyCalls, generated, edits>>
    /\ ModalRender

\* onClose: setCaptionsModalOpen(false); setSelectedClipForCaptions(null)
OnClose ==
    /\ captionsModalOpen' = FALSE
    /\ selectedClipForCaptions' = NoClip

\* The close and the Cancel button of the modal
CloseCaptions ==
    /\ ModalVisible
    /\ OnClose
    /\ CaptionFrame
    /\ UNCHANGED <<editingClips, listeners, videoLoaded, videoTime, lastResponse,
                   generateCalls, applyCalls, opens, generated, edits>>
    /\ ModalRender

\* handleGenerateCaptions up to its await (the button is disabled while generating)
HandleGenerateCaptions ==
    /\ ModalVisible
    /\ ~captionsModal.isGenerating
    /\ generated + Cardinality(generateCalls) < MaxGenerates
    /\ captionsModal' = [captionsModal EXCEPT !.isGenerating = TRUE]
    /\ generateCalls' = generateCalls \cup {[instance |-> captionsModal.instance]}
    /\ UNCHANGED <<applyCalls, generated, edits>>
    /\ ModalFrame

\* setCaptions(list); setIsGenerating(false) in the modal that made the call; a
\* modal that has unmounted since takes no state
GenerateDone(call, list) ==
    /\ generateCalls' = generateCalls \ {call}
    /\ generated' = generated + 1
    /\ captionsModal' =
         IF captionsModal.mounted /\ captionsModal.instance = call.instance
         THEN [captionsModal EXCEPT !.captions = NewObjects(list, generated + 1),
                                    !.isGenerating = FALSE]
         ELSE captionsModal
    /\ UNCHANGED <<applyCalls, edits>>
    /\ ModalFrame

\* await apiService.generateCaptions(...) resolves
GenerateResolved ==
    \E call \in generateCalls, list \in GenerateAnswers : GenerateDone(call, list)

\* await apiService.generateCaptions(...) rejects
GenerateRejected ==
    \E call \in generateCalls : GenerateDone(call, MockCaptions)

\* loadPreset(presetIndex): the preset buttons, rendered when captions.length > 0
LoadPreset ==
    \E presetIndex \in CaptionPresets :
        /\ ModalVisible
        /\ Len(captionsModal.captions) > 0
        /\ captionsModal' = [captionsModal EXCEPT !.captionStyle = presetIndex]
        /\ UNCHANGED <<generateCalls, applyCalls, generated, edits>>
        /\ ModalFrame

\* startEditing(index, caption.text): the Edit button of a segment
StartEditing ==
    \E index \in 0..(Len(captionsModal.captions) - 1) :
        /\ ModalVisible
        /\ edits < MaxEdits
        /\ edits' = edits + 1
        /\ captionsModal' =
             [captionsModal EXCEPT !.editingIndex = index,
                                   !.editingText = ClipAt(captionsModal.captions, index).text]
        /\ UNCHANGED <<generateCalls, applyCalls, generated>>
        /\ ModalFrame

\* The text input is rendered in the row of the segment being edited
EditRowRendered ==
    /\ ModalVisible
    /\ HasClip(captionsModal.captions, captionsModal.editingIndex)

\* onChange of the text input: setEditingText(e.target.value)
ChangeEditingText ==
    \E text \in TypedTexts :
        /\ EditRowRendered
        /\ captionsModal' = [captionsModal EXCEPT !.editingText = text]
        /\ UNCHANGED <<generateCalls, applyCalls, generated, edits>>
        /\ ModalFrame

\* saveEdit writes into the segment object itself: an array other than the
\* modal's own that holds the object shows the new text
SaveEditText(caps, obj, text) == SetText(caps, obj, text)

\* saveEdit: the Save button of the row being edited
SaveEdit ==
    LET obj == ClipAt(captionsModal.captions, captionsModal.editingIndex).obj
        text == captionsModal.editingText
        InClips(clips) ==
            [k \in 1..Len(clips) |->
                [clips[k] EXCEPT !.captions = SaveEditText(@, obj, text)]]
    IN /\ EditRowRendered
       /\ captionsModal' =
            [captionsModal EXCEPT !.captions = SetText(@, obj, text),
                                  !.editingIndex = -1,
                                  !.editingText = ""]
       /\ selectedClipForCaptions' =
            [selectedClipForCaptions EXCEPT !.captions = SaveEditText(@, obj, text)]
       /\ editingClips' = InClips(editingClips)
       /\ listeners' =
            [k \in 1..Len(listeners) |->
                [listeners[k] EXCEPT !.editingClips = InClips(@)]]
       /\ applyCalls' =
            {[call EXCEPT !.captions = SaveEditText(@, obj, text)] : call \in applyCalls}
       /\ CaptionFrame
       /\ UNCHANGED <<videoLoaded, videoTime, lastResponse, captionsModalOpen, opens,
                      generateCalls, generated, edits>>

\* cancelEdit: the Cancel button of the row being edited
CancelEdit ==
    /\ EditRowRendered
    /\ captionsModal' = [captionsModal EXCEPT !.editingIndex = -1, !.editingText = ""]
    /\ UNCHANGED <<generateCalls, applyCalls, generated, edits>>
    /\ ModalFrame

\* handleApplyCaptions up to its await: the Apply button, rendered when
\* captions.length > 0 and disabled while applying
HandleApplyCaptions ==
    /\ ModalVisible
    /\ Len(captionsModal.captions) > 0
    /\ ~captionsModal.isApplying
    /\ captionsModal' = [captionsModal EXCEPT !.isApplying = TRUE]
    /\ applyCalls' = applyCalls \cup
         {[instance |-> captionsModal.instance,
           jobId |-> jobId,
           clipId |-> selectedClipForCaptions.id,
           captions |-> captionsModal.captions,
           captionStyle |-> captionsModal.captionStyle]}
    /\ UNCHANGED <<generateCalls, generated, edits>>
    /\ ModalFrame

\* Mutant: the captions passed to handleCaptionsApplied are not stored
CaptionsOfClipKept(clip, captions) == clip.captions

\* captions of the updated clip
CaptionsOfClip(clip, captions) == captions

\* path: captionedVideoUrl || clip.path
PathOfClip(clip, captionedVideoUrl) ==
    IF captionedVideoUrl # NoPath THEN captionedVideoUrl ELSE clip.path

\* originalPath: clip.originalPath || clip.path
OriginalPathOfClip(clip) ==
    IF clip.originalPath # NoPath THEN clip.originalPath ELSE clip.path

\* handleCaptionsApplied: setEditingClips(prevClips => prevClips.map(...))
HandleCaptionsApplied(prevClips, clipId, captions, style, captionedVideoUrl) ==
    [k \in 1..Len(prevClips) |->
        IF prevClips[k].id = clipId
        THEN [prevClips[k] EXCEPT
                 !.captions = CaptionsOfClip(prevClips[k], captions),
                 !.captionStyle = style,
                 !.path = PathOfClip(prevClips[k], captionedVideoUrl),
                 !.originalPath = OriginalPathOfClip(prevClips[k])]
        ELSE prevClips[k]]

\* handleApplyCaptions past its await: onCaptionsApplied(...), onClose(), and
\* setIsApplying(false) in a modal that onClose has just unmounted
ApplyDone(call, captionedVideoUrl) ==
    /\ applyCalls' = applyCalls \ {call}
    /\ editingClips' = HandleCaptionsApplied(editingClips, call.clipId, call.captions,
                                             call.captionStyle, captionedVideoUrl)
    /\ OnClose
    /\ CaptionFrame
    /\ UNCHANGED <<listeners, generateCalls, opens, generated, edits>>
    /\ ModalRender
    /\ VideoRemount(videoTime)

\* await apiService.applyCaptions(...) resolves
ApplyResolved ==
    \E call \in applyCalls, previewUrl \in PreviewUrls :
        /\ lastResponse' = Response("apply", "applied", previewUrl, <<call>>)
        /\ ApplyDone(call, previewUrl)

\* await apiService.applyCaptions(...) rejects
ApplyRejected ==
    \E call \in applyCalls :
        /\ lastResponse' = Response("apply", "throw", NoPath, <<call>>)
        /\ ApplyDone(call, NoPath)

----------------------------------------------------------------------------
(* Preview video and timeline seek *)

\* onLoadedMetadata of the mounted <video>
OnLoadedMetadata ==
    /\ VideoMounted
    /\ UNCHANGED captionVars
    /\ ~videoLoaded
    /\ videoLoaded' = TRUE
    /\ videoDuration' = TimelineSeconds
    /\ videoTime' = 0
    /\ currentTime' = ClipAt(editingClips, currentClipIndex).editedStart
    /\ UNCHANGED <<appState, jobId, jobStatus, error, isSubmitting, currentClipIndex,
                   editingClips, finalizedClips, isDragging, dragStartX, dragStartValue,
                   isPreventingTimelineClick, isFinalizingClips, listeners,
                   debounceTimers, submitCalls, statusCalls, finalizeCalls,
                   jobsStarted, serverJobs, presses,
                   lastResponse>>

\* onTimeUpdate of the mounted <video>: setCurrentTime(currentClip.editedStart + relativeTime)
OnTimeUpdate ==
    /\ VideoMounted
    /\ currentTime' = ClipAt(editingClips, currentClipIndex).editedStart + videoTime
    /\ UNCHANGED captionVars
    /\ UNCHANGED <<appState, jobId, jobStatus, error, isSubmitting, currentClipIndex,
                   editingClips, finalizedClips, videoDuration, isDragging,
                   dragStartX, dragStartValue, isPreventingTimelineClick,
                   isFinalizingClips, listeners, debounceTimers, submitCalls,
                   statusCalls, finalizeCalls, videoLoaded, videoTime, jobsStarted,
                   serverJobs, presses, lastResponse>>

\* handleTimelineClick: onClick of the timeline, the pointer at clientX
HandleTimelineClickAt(clientX) ==
    /\ TimelineMounted
    /\ ~ModalVisible
    /\ UNCHANGED captionVars
    /\ IF ~VideoMounted \/ isDragging.type # "none" \/ isPreventingTimelineClick
       THEN UNCHANGED <<currentTime, videoTime>>
       ELSE /\ videoTime' = DeltaTime(clientX, videoDuration)
            /\ currentTime' = DeltaTime(clientX, videoDuration)
    /\ UNCHANGED <<appState, jobId, jobStatus, error, isSubmitting, currentClipIndex,
                   editingClips, finalizedClips, videoDuration, isDragging,
                   dragStartX, dragStartValue, isPreventingTimelineClick,
                   isFinalizingClips, listeners, debounceTimers, submitCalls,
                   statusCalls, finalizeCalls, videoLoaded, jobsStarted, serverJobs, presses,
                   lastResponse>>

HandleTimelineClick == \E clientX \in PointerXs : HandleTimelineClickAt(clientX)

----------------------------------------------------------------------------
Init ==
    /\ appState = "input"
    /\ jobId = NoJob
    /\ jobStatus = NoStatus
    /\ error = ""
    /\ isSubmitting = FALSE
    /\ currentClipIndex = 0
    /\ editingClips = <<>>
    /\ finalizedClips = <<>>
    /\ currentTime = 0
    /\ videoDuration = 0
    /\ isDragging = NotDragging
    /\ dragStartX = 0
    /\ dragStartValue = 0
    /\ isPreventingTimelineClick = FALSE
    /\ isFinalizingClips = FALSE
    /\ listeners = <<>>
    /\ debounceTimers = 0
    /\ submitCalls = 0
    /\ statusCalls = NoCalls
    /\ finalizeCalls = <<>>
    /\ videoLoaded = FALSE
    /\ videoTime = 0
    /\ jobsStarted = 0
    /\ serverJobs = [j \in JobIds |-> StillProcessing]
    /\ presses = 0
    /\ captionsModalOpen = FALSE
    /\ selectedClipForCaptions = NoClip
    /\ captionsModal = Unmounted
    /\ generateCalls = {}
    /\ applyCalls = {}
    /\ opens = 0
    /\ generated = 0
    /\ edits = 0
    /\ lastResponse = NoResponse

\* The workflow: submit, polling, finalize, reset
NextFlow ==
    \/ HandleSubmit
    \/ SubmitResolved
    \/ SubmitRejected
    \/ PollTick
    \/ PollResolved
    \/ PollRejected
    \/ HandleFinalize
    \/ FinalizeResolved
    \/ FinalizeRejected
    \/ HandleReset

\* The pointer and the preview video of the editing view
NextEditor ==
    \/ ClipMouseDown
    \/ HandleMouseDown
    \/ SelectorClick
    \/ MouseMove
    \/ MouseUp
    \/ DebounceTimeout
    \/ OnLoadedMetadata
    \/ OnTimeUpdate
    \/ HandleTimelineClick

\* The caption editor
NextCaptions ==
    \/ HandleOpenCaptions
    \/ CloseCaptions
    \/ HandleGenerateCaptions
    \/ GenerateResolved
    \/ GenerateRejected
    \/ LoadPreset
    \/ StartEditing
    \/ ChangeEditingText
    \/ SaveEdit
    \/ CancelEdit
    \/ HandleApplyCaptions
    \/ ApplyResolved
    \/ ApplyRejected

\* Submit and polling up to the ingest of the clips
NextIngest ==
    \/ HandleSubmit
    \/ SubmitResolved
    \/ PollTick
    \/ PollResolved

Next == NextFlow \/ NextEditor \/ NextCaptions

Spec == Init /\ [][Next]_vars

\* The workflow alone, with no pointer or video event
SpecFlow == Init /\ [][NextFlow]_vars

\* The workflow with fair timer ticks and call completions, and a job that
\* answers complete or failed, or a query that fails, if asked again and again
SpecLive ==
    /\ Init /\ [][NextFlow]_vars
    /\ WF_vars(PollTick)
    /\ WF_vars(PollResolved \/ PollRejected)
    /\ SF_vars(JobAnswers \/ PollRejected)
    /\ WF_vars(FinalizeResolved \/ FinalizeRejected)

\* Ingest and the pointer and video events of the editing view
SpecDrag == Init /\ [][NextIngest \/ NextEditor]_vars

\* Ingest, trimming of the selected clip, and captions generated and applied
NextTrimCaptions ==
    \/ HandleSubmit
    \/ SubmitResolved
    \/ PollResolved
    \/ HandleMouseDown
    \/ MouseMove
    \/ MouseUp
    \/ OnLoadedMetadata
    \/ HandleOpenCaptions
    \/ HandleGenerateCaptions
    \/ GenerateResolved
    \/ GenerateRejected
    \/ HandleApplyCaptions
    \/ ApplyResolved
    \/ ApplyRejected

SpecTrimCaptions == Init /\ [][NextTrimCaptions]_vars

\* Ingest, trimming, captions, and the finalize request with its answer
SpecFinalize ==
    Init /\ [][NextTrimCaptions \/ HandleFinalize \/ FinalizeResolved
                   \/ FinalizeRejected]_vars

\* The workflow with resets and later jobs, and captions applied from the editor
NextApply ==
    \/ NextFlow
    \/ HandleOpenCaptions
    \/ CloseCaptions
    \/ HandleGenerateCaptions
    \/ GenerateRejected
    \/ HandleApplyCaptions
    \/ ApplyResolved
    \/ ApplyRejected

SpecApply == Init /\ [][NextApply]_vars

\* Ingest and the caption editor
SpecCaptions == Init /\ [][NextIngest \/ SelectorClick \/ NextCaptions]_vars

----------------------------------------------------------------------------
(* Properties *)

\* A step in which the answer (or the failure) of a status query is handled
PollResponseStep == TotalStatusCalls(statusCalls') < TotalStatusCalls(statusCalls)

\* A step in which a status query is sent
PollQueryStep == TotalStatusCalls(statusCalls') > TotalStatusCalls(statusCalls)

\* A step in which the answer (or the failure) of a finalize call is handled
FinalizeResponseStep == Len(finalizeCalls') < Len(finalizeCalls)

\* The messages the catch block of handleFinalize can store
FinalizeErrors ==
    {FinalizeError(m) : m \in TransportErrors \cup ServerMessages \cup {"Failed to finalize clips"}}

Overlap(a, b) == ~(a.editedEnd <= b.editedStart \/ b.editedEnd <= a.editedStart)

NoOverlap(clips) ==
    \A i, j \in 1..Len(clips) : i # j => ~Overlap(clips[i], clips[j])

\* C1: once a drag gesture has been started on the ingested collection, after every
\* press, move and release no two distinct clips have overlapping edited intervals.
C1_NoOverlapUnderDrag == presses > 0 => NoOverlap(editingClips)

\* C2: in every state of the editor, from ingest onward and whatever the timeline
\* duration is, every clip has 0 <= editedStart < editedEnd <= videoDuration.
C2_BoundsContainment ==
    \A k \in 1..Len(editingClips) :
        /\ 0 <= editingClips[k].editedStart
        /\ editingClips[k].editedStart < editingClips[k].editedEnd
        /\ editingClips[k].editedEnd <= videoDuration

\* C3: once the workflow is complete or error, the only step that changes the
\* workflow state is reset (to input).
C3_TerminalStates ==
    [][(appState \in {"complete", "error"} /\ appState' # appState)
          => appState' = "input"]_vars

\* C4: from input the workflow goes in one step only to processing or to error.
C4_FromInput ==
    [][(appState = "input") => (appState' \in {"input", "processing", "error"})]_vars

\* Finalize has been started: its call is outstanding, or its outcome is shown
FinalizeStarted ==
    \/ Len(finalizeCalls) > 0
    \/ appState = "complete"
    \/ appState = "error" /\ error \in FinalizeErrors

\* C5: the answer of a status query that arrives after finalize has been started
\* changes neither the workflow state, nor the error message, nor the clips.
C5_FinalizeSuppressesPoll ==
    [][(FinalizeStarted /\ PollResponseStep)
          => UNCHANGED <<appState, error, editingClips>>]_vars

\* The state of the page: every variable but the history variable
pageVars == <<appState, jobId, jobStatus, error, isSubmitting, currentClipIndex,
              editingClips, finalizedClips, currentTime, videoDuration, isDragging,
              dragStartX, dragStartValue, isPreventingTimelineClick,
              isFinalizingClips, listeners, debounceTimers, submitCalls,
              statusCalls, finalizeCalls, videoLoaded, videoTime,
              captionsModalOpen, selectedClipForCaptions, captionsModal,
              generateCalls, applyCalls>>

\* A step in which handleFinalize runs while a finalize call is outstanding
FinalizeWhileOutstandingStep ==
    /\ Len(finalizeCalls) > 0
    /\ lastResponse' # lastResponse
    /\ lastResponse'.outcome = "ignored"

\* C6: at most one finalize request is outstanding at any time: handleFinalize
\* invoked while a finalize call is outstanding sends no request and changes no
\* state of the page.
C6_OneFinalizeOutstanding ==
    [][/\ Len(finalizeCalls') <= 1
       /\ FinalizeWhileOutstandingStep => UNCHANGED pageVars]_vars

\* C6 witness: handleFinalize has been invoked and ignored while the one finalize
\* call was outstanding
C6_Witness ==
    /\ Len(finalizeCalls) = 1
    /\ isFinalizingClips
    /\ lastResponse.call = "finalize"
    /\ lastResponse.outcome = "ignored"

\* C7: a status query is sent only into the processing state of the current job
\* with no finalize call outstanding, and one is sent at once on entering it.
C7_QueriesOnlyWhileProcessing ==
    [][/\ PollQueryStep =>
              /\ appState' = "processing"
              /\ jobId' # NoJob
              /\ ~isFinalizingClips'
              /\ Len(finalizeCalls') = 0
              /\ statusCalls'[jobId'] = statusCalls[jobId'] + 1
       /\ (appState # "processing" /\ PollGuard(appState', jobId', isFinalizingClips'))
              => PollQueryStep]_vars

\* C7 witness: two queries of the current job are in flight in processing
C7_Witness ==
    /\ appState = "processing"
    /\ ~isFinalizingClips
    /\ statusCalls[jobId] = 2

\* C8: when the finalize call answers "success" with a list, the workflow becomes
\* complete and finalizedClips is exactly that list.
C8_FinalizeSuccessReplaces ==
    [][(FinalizeResponseStep /\ lastResponse'.outcome = "success")
          => /\ appState' = "complete"
             /\ finalizedClips' = lastResponse'.clips]_vars

\* C8 witness: complete after a success that returned two finalized clips
C8_Witness ==
    /\ appState = "complete"
    /\ lastResponse.call = "finalize"
    /\ lastResponse.outcome = "success"
    /\ Len(finalizedClips) = 2

\* C9: a failed finalize call leaves the workflow in error with a message, and the
\* only step that leaves that error state is reset.
C9_FinalizeFailureIsFinal ==
    [][/\ (FinalizeResponseStep /\ lastResponse'.outcome # "success")
              => appState' = "error" /\ error' # ""
       /\ (appState = "error" /\ error \in FinalizeErrors /\ appState' # "error")
              => appState' = "input"]_vars

\* C10: when a status query answers "failed" with message m, the workflow becomes
\* error and the error message is exactly m.
C10_PollFailedMessage ==
    [][(PollResponseStep /\ lastResponse'.outcome = "failed")
          => /\ appState' = "error"
             /\ error' = lastResponse'.message]_vars

\* C10 witness: error after a status query answered failed with message "x"
C10_Witness ==
    /\ appState = "error"
    /\ lastResponse.call = "status"
    /\ lastResponse.outcome = "failed"
    /\ lastResponse.message = "x"
    /\ error = "x"

\* No caption editor state is held: none is selected, open or mounted
NoCaptionEditor ==
    /\ ~captionsModalOpen
    /\ selectedClipForCaptions = NoClip
    /\ ~captionsModal.mounted

\* C11: outside input a reset control is available in every workflow state, and
\* the step back to input leaves no clip, no finalized clip, no job id, no job
\* status, no error message and no caption editor state.
C11_ResetFromAnyState ==
    [][/\ (appState # "input") => ResetRendered
       /\ (appState # "input" /\ appState' = "input")
              => /\ editingClips' = <<>>
                 /\ finalizedClips' = <<>>
                 /\ jobId' = NoJob
                 /\ jobStatus' = NoStatus
                 /\ error' = ""
                 /\ NoCaptionEditor']_vars

\* A result list ingest is required to accept: every record has both time
\* bounds, start_time < end_time, and no two records overlap
ValidResults(results) ==
    /\ \A k \in 1..Len(results) :
          /\ results[k].start_time # Missing
          /\ results[k].end_time # Missing
          /\ results[k].start_time < results[k].end_time
    /\ \A i, j \in 1..Len(results) :
          i # j => \/ results[i].end_time <= results[j].start_time
                   \/ results[j].end_time <= results[i].start_time

\* C12: a complete status answer whose results are not valid moves the workflow to
\* error and installs no clips.
C12_IngestValidation ==
    [][(PollResponseStep /\ lastResponse'.outcome = "complete"
            /\ ~ValidResults(jobStatus'.results))
          => /\ appState' = "error"
             /\ editingClips' = editingClips]_vars

\* One gesture is in progress; it was pressed with the metadata loaded, on a clip
\* of a collection that is valid on the timeline and has not changed since
OneGestureOnValidClips ==
    /\ Len(listeners) = 1
    /\ HasClip(editingClips, listeners[1].clipIndex)
    /\ listeners[1].editingClips = editingClips
    /\ listeners[1].videoDuration = TimelineSeconds
    /\ videoDuration = TimelineSeconds
    /\ NoOverlap(editingClips)
    /\ \A k \in 1..Len(editingClips) :
          /\ 0 <= editingClips[k].editedStart
          /\ editingClips[k].editedStart < editingClips[k].editedEnd
          /\ editingClips[k].editedEnd <= TimelineSeconds

\* The position the user asks for with the pointer at clientX: the boundary's value
\* at the press, moved by the pointer's travel since the press
RequestedAt(clientX) == dragStartValue + DeltaTime(clientX - dragStartX, videoDuration)

\* C13: a move of a gesture on a valid collection that requests a position beyond
\* the facing edge of the nearest neighbour (or beyond 0 / the timeline duration)
\* lands the boundary exactly at that edge.
C13_MonotonicClamping ==
    [][\A clientX \in PointerXs :
          (MouseMoveAt(clientX) /\ OneGestureOnValidClips) =>
              LET i == listeners[1].clipIndex
                  mode == listeners[1].dragType
                  clip == ClipAt(editingClips, i)
                  after == ClipAt(editingClips', i)
                  left == MinBound(editingClips, i)
                  right == MaxBound(editingClips, i, TimelineSeconds)
                  requested == RequestedAt(clientX)
              IN /\ (mode = "start" /\ requested < left) => after.editedStart = left
                 /\ (mode = "end" /\ requested > right) => after.editedEnd = right
                 /\ (mode = "move" /\ requested < left) => after.editedStart = left
                 /\ (mode = "move"
                        /\ requested + (clip.editedEnd - clip.editedStart) > right)
                       => after.editedEnd = right]_vars

\* C14: a move that reports the position of the press of its gesture leaves
\* editedStart and editedEnd of every clip unchanged.
C14_ZeroDeltaIdempotence ==
    [][(MouseMoveAt(dragStartX) /\ Len(listeners) = 1
            /\ listeners[1].editingClips = editingClips /\ TimelineMounted)
          => \A k \in 1..Len(editingClips) :
                /\ editingClips'[k].editedStart = editingClips[k].editedStart
                /\ editingClips'[k].editedEnd = editingClips[k].editedEnd]_vars

\* editedStart and editedEnd of a clip
Edits(clip) == <<clip.editedStart, clip.editedEnd>>

\* C15: a move of a gesture changes editedStart / editedEnd of no clip other than
\* the gesture's clip; a trim-start move leaves that clip's editedEnd and a
\* trim-end move its editedStart unchanged.
C15_OneClipPerGesture ==
    [][\A clientX \in PointerXs :
          (MouseMoveAt(clientX) /\ Len(listeners) = 1 /\ TimelineMounted) =>
              LET active == listeners[1].clipIndex + 1
                  mode == listeners[1].dragType
              IN /\ Len(editingClips') = Len(editingClips)
                 /\ \A k \in 1..Len(editingClips) :
                       /\ (k # active) => Edits(editingClips'[k]) = Edits(editingClips[k])
                       /\ (k = active /\ mode = "start")
                             => editingClips'[k].editedEnd = editingClips[k].editedEnd
                       /\ (k = active /\ mode = "end")
                             => editingClips'[k].editedStart = editingClips[k].editedStart]_vars

\* editedStart and editedEnd of every clip are as they were
SameEdits ==
    /\ Len(editingClips') = Len(editingClips)
    /\ \A k \in 1..Len(editingClips) : Edits(editingClips'[k]) = Edits(editingClips[k])

\* C16: a press on a clip that is not the selected one selects it and starts no
\* drag: drag mode, listeners and every boundary stay as they are. A press that
\* starts a drag starts it on the selected clip and leaves the selection alone.
C16_OnlySelectedClipDragged ==
    [][/\ \A clipIndex \in 0..(Len(editingClips) - 1), clientX \in PointerXs :
            (ClipMouseDownAt(clipIndex, clientX) /\ clipIndex # currentClipIndex)
               => /\ currentClipIndex' = clipIndex
                  /\ isDragging' = isDragging
                  /\ listeners' = listeners
                  /\ presses' = presses
                  /\ SameEdits
       /\ (presses' > presses)
             => /\ isDragging'.type # "none"
                /\ isDragging'.clipIndex = currentClipIndex
                /\ currentClipIndex' = currentClipIndex
                /\ SameEdits]_vars

\* Clip 2 was selected and then pressed: it is being moved
C16_Witness ==
    /\ currentClipIndex = 1
    /\ presses > 0
    /\ isDragging = [type |-> "move", clipIndex |-> 1]

\* C17: a timeline click while a drag is in progress, or while the debounce timer
\* of any release is still pending, changes neither currentTime nor the position
\* of the preview video.
C17_SeekSuppression ==
    [][(HandleTimelineClick /\ (isDragging.type # "none" \/ debounceTimers > 0))
          => UNCHANGED <<currentTime, videoTime>>]_vars

\* C18: drag listeners are installed exactly while a gesture is in progress; a
\* release removes every installed listener, each once, and starts one debounce
\* timer for each; a move event while drag mode is none changes no clip.
C18_ScopedListeners ==
    [][/\ (listeners' = <<>>) <=> (isDragging'.type = "none")
       /\ (presses' > presses) => Len(listeners') = Len(listeners) + 1
       /\ MouseUp => /\ listeners' = <<>>
                     /\ debounceTimers' = debounceTimers + Len(listeners)
       /\ (Len(listeners') < Len(listeners)) => MouseUp
       /\ \A clientX \in PointerXs :
             MouseMoveAt(clientX) => isDragging.type # "none"]_vars

\* A gesture was released: no listener is left and its debounce timer is pending
C18_Witness ==
    /\ presses > 0
    /\ listeners = <<>>
    /\ isDragging = NotDragging
    /\ debounceTimers > 0

\* This step handles the completion of an apply call: lastResponse' tells which
\* call, and how it ended
ApplyResponseStep ==
    /\ lastResponse'.call = "apply"
    /\ Len(lastResponse'.clips) = 1
    /\ lastResponse'.clips[1] \in applyCalls
    /\ applyCalls' = applyCalls \ {lastResponse'.clips[1]}

\* C19: when the apply call throws, every clip with the submitted id holds the
\* submitted segments and style, its path is what it was, and the workflow state
\* and the error message do not change.
C19_ApplyFailureDegrades ==
    [][(ApplyResponseStep /\ lastResponse'.outcome = "throw")
          => LET call == lastResponse'.clips[1]
             IN /\ Len(editingClips') = Len(editingClips)
                /\ \A k \in 1..Len(editingClips) :
                      (editingClips[k].id = call.clipId)
                         => /\ editingClips'[k].captions = call.captions
                            /\ editingClips'[k].captionStyle = call.captionStyle
                            /\ editingClips'[k].path = editingClips[k].path
                /\ appState' = appState
                /\ error' = error]_vars

\* An apply call has thrown: the workflow is in editing and a clip holds segments
\* and a style other than the default, with the path it was ingested with
C19_Witness ==
    /\ lastResponse.call = "apply"
    /\ lastResponse.outcome = "throw"
    /\ appState = "editing"
    /\ \E k \in 1..Len(editingClips) :
          /\ editingClips[k].id = lastResponse.clips[1].clipId
          /\ Len(editingClips[k].captions) > 0
          /\ editingClips[k].captions = lastResponse.clips[1].captions
          /\ editingClips[k].captionStyle # DefaultCaptionStyle
          /\ editingClips[k].path = "/clips/1.mp4"

\* The references an apply call can return: the captioned assets
CaptionedUrls == PreviewUrls \ {NoPath}

\* C20: a successful apply that returns a preview reference makes it the clip's
\* path; the clip's originalPath becomes the path it had if that was not yet a
\* captioned asset, and stays what it was otherwise.
C20_ApplySuccessKeepsOriginal ==
    [][(ApplyResponseStep /\ lastResponse'.outcome = "applied"
            /\ lastResponse'.message \in CaptionedUrls)
          => LET call == lastResponse'.clips[1]
             IN \A k \in 1..Len(editingClips) :
                   (editingClips[k].id = call.clipId)
                      => /\ editingClips'[k].path = lastResponse'.message
                         /\ editingClips'[k].originalPath =
                               IF editingClips[k].path \in CaptionedUrls
                               THEN editingClips[k].originalPath
                               ELSE editingClips[k].path]_vars

\* The step that creates the clips: the complete answer of a status query handled
\* in processing
IngestStep ==
    /\ appState = "processing"
    /\ appState' = "editing"
    /\ PollResponseStep
    /\ lastResponse'.outcome = "complete"

\* C21: outside editing (input, processing, complete, error, and editing with a
\* finalize call outstanding) a step changes the clips only by creating them at
\* ingest or by discarding them all.
C21_ClipsMutatedOnlyInEditing ==
    [][((appState # "editing" \/ isFinalizingClips) /\ editingClips' # editingClips)
          => (IngestStep \/ editingClips' = <<>>)]_vars

\* Caption times are tenths of a second, clip times are seconds
TenthsPerSecond == 10

\* C22: every caption segment stored on a clip lies within the clip's own length:
\* 0 <= start < end <= editedEnd - editedStart.
C22_CaptionSegmentRange ==
    \A k \in 1..Len(editingClips) :
        \A n \in 1..Len(editingClips[k].captions) :
            LET segment == editingClips[k].captions[n]
                clipLength == editingClips[k].editedEnd - editingClips[k].editedStart
            IN /\ 0 <= segment.start
               /\ segment.start < segment.end
               /\ segment.end <= TenthsPerSecond * clipLength

\* Start and end of the segments of a caption list
SegmentTimes(caps) == [n \in 1..Len(caps) |-> <<caps[n].start, caps[n].end>>]

\* The demonstration caption set: four segments of 2.5 s covering 0 to 10 s
DemonstrationTimes == <<(<<0, 25>>), (<<25, 50>>), (<<50, 75>>), (<<75, 100>>)>>

\* C23: when a generate call fails, the editor that made it holds the
\* demonstration set and is no longer generating; the failed call is gone and no
\* new generate call is sent; workflow state, error and clips are unchanged.
C23_GenerateFallback ==
    [][GenerateRejected
          => /\ \E call \in generateCalls :
                  /\ generateCalls' = generateCalls \ {call}
                  /\ (captionsModal.mounted /\ captionsModal.instance = call.instance)
                        => /\ SegmentTimes(captionsModal'.captions) = DemonstrationTimes
                           /\ captionsModal'.captions[1].text = "This will blow your mind!"
                           /\ ~captionsModal'.isGenerating
             /\ appState' = appState
             /\ error' = error
             /\ editingClips' = editingClips]_vars

\* A generate call has failed: the open editor shows the demonstration set
C23_Witness ==
    /\ appState = "editing"
    /\ captionsModal.mounted
    /\ SegmentTimes(captionsModal.captions) = DemonstrationTimes
    /\ ~captionsModal.isGenerating
    /\ generateCalls = {}

\* originalStart and originalEnd of a clip
Provenance(clip) == <<clip.originalStart, clip.originalEnd>>

\* C24: a complete status answer installs clips whose editedStart / editedEnd equal
\* their originalStart / originalEnd, which are the upstream start / end; and a step
\* that leaves clips in the collection leaves their originalStart / originalEnd as
\* they were.
C24_ProvenanceImmutable ==
    [][/\ (PollResponseStep /\ lastResponse'.outcome = "complete")
             => /\ Len(editingClips') = Len(jobStatus'.results)
                /\ \A k \in 1..Len(editingClips') :
                      /\ Edits(editingClips'[k]) = Provenance(editingClips'[k])
                      /\ (jobStatus'.results[k].start_time # Missing)
                            => editingClips'[k].originalStart = jobStatus'.results[k].start_time
                      /\ (jobStatus'.results[k].end_time # Missing)
                            => editingClips'[k].originalEnd = jobStatus'.results[k].end_time
       /\ \A k \in 1..Len(editingClips) :
             (k <= Len(editingClips'))
                => Provenance(editingClips'[k]) = Provenance(editingClips[k])]_vars

\* The clip of the gesture after a move that asks for position requested, clamped
\* as handleMouseMove clamps, within the collection and the duration of this state
ClampedAt(dragType, clipIndex, requested) ==
    LET clip == ClipAt(editingClips, clipIndex)
        minBound == MinBound(editingClips, clipIndex)
        maxBound == MaxBound(editingClips, clipIndex, videoDuration)
    IN IF dragType = "start" THEN TrimStart(clip, minBound, requested)
       ELSE IF dragType = "end" THEN TrimEnd(clip, maxBound, requested)
       ELSE MoveClip(clip, minBound, maxBound, requested)

\* C25: a move event of a gesture writes the clamped value of referenceValue +
\* deltaTime, where referenceValue is the boundary as it was at this gesture's press
\* and deltaTime maps the pointer's travel since this gesture's press position.
C25_ReferenceCapture ==
    [][\A clientX \in PointerXs :
          (/\ MouseMoveAt(clientX)
           /\ TimelineMounted
           /\ Len(listeners) = 1
           /\ HasClip(editingClips, listeners[1].clipIndex)
           /\ listeners[1].editingClips = editingClips
           /\ listeners[1].videoDuration = videoDuration)
             => ClipAt(editingClips', listeners[1].clipIndex)
                  = ClampedAt(listeners[1].dragType, listeners[1].clipIndex,
                              RequestedAt(clientX))]_vars

\* C26: after a trim-start or trim-end move event the clip of the gesture is at
\* least one second long.
C26_MinimumClipLength ==
    [][\A clientX \in PointerXs :
          (/\ MouseMoveAt(clientX)
           /\ TimelineMounted
           /\ Len(listeners) = 1
           /\ HasClip(listeners[1].editingClips, listeners[1].clipIndex)
           /\ listeners[1].dragType \in {"start", "end"})
             => LET after == ClipAt(editingClips', listeners[1].clipIndex)
                IN after.editedEnd - after.editedStart >= MinClipSeconds]_vars

\* editedEnd of the nearest other clip that ends at or before the start of clip
\* clipIndex, or 0
PrecedingEdge(clips, clipIndex) ==
    LET before == {ClipAt(clips, o).editedEnd : o \in
                     {o \in OtherClips(clips, clipIndex) :
                         ClipAt(clips, o).editedEnd <= ClipAt(clips, clipIndex).editedStart}}
    IN IF before = {} THEN 0 ELSE CHOOSE m \in before : \A v \in before : v <= m

\* editedStart of the nearest other clip that starts at or after the end of clip
\* clipIndex, or the timeline duration
FollowingEdge(clips, clipIndex, duration) ==
    LET after == {ClipAt(clips, o).editedStart : o \in
                     {o \in OtherClips(clips, clipIndex) :
                         ClipAt(clips, o).editedStart >= ClipAt(clips, clipIndex).editedEnd}}
    IN IF after = {} THEN duration ELSE CHOOSE m \in after : \A v \in after : m <= v

\* C27: after a move event of a gesture in move mode the clip has the duration it
\* had at the press, and lies between the preceding clip's end (or 0) and the
\* following clip's start (or the timeline duration) of the collection at the press.
C27_MovePreservesDuration ==
    [][\A clientX \in PointerXs :
          (/\ MouseMoveAt(clientX)
           /\ TimelineMounted
           /\ Len(listeners) = 1
           /\ HasClip(listeners[1].editingClips, listeners[1].clipIndex)
           /\ listeners[1].dragType = "move")
             => LET i == listeners[1].clipIndex
                    pressed == ClipAt(listeners[1].editingClips, i)
                    after == ClipAt(editingClips', i)
                IN /\ after.editedEnd - after.editedStart
                        = pressed.editedEnd - pressed.editedStart
                   /\ PrecedingEdge(listeners[1].editingClips, i) <= after.editedStart
                   /\ after.editedEnd
                        <= FollowingEdge(listeners[1].editingClips, i, videoDuration)]_vars

\* The workflow waits for the job: processing, and not the processing view that
\* a finalize call shows while it is outstanding
AwaitingJob == appState = "processing" /\ ~isFinalizingClips

\* C28: a status query that throws leaves the workflow in error and sends no
\* query; queries are sent only for the current job of a workflow that waits for
\* it, and the workflow starts to wait only for a job that has had no query, so
\* no query follows for the job whose query threw. A finalize call that fails
\* sends no finalize request: requests are sent only by the Finalize action.
C28_NoRetry ==
    [][/\ (PollResponseStep /\ lastResponse'.outcome = "throw")
             => /\ appState' = "error"
                /\ \A j \in JobIds : statusCalls'[j] <= statusCalls[j]
       /\ \A j \in JobIds :
             (statusCalls'[j] > statusCalls[j])
                => /\ AwaitingJob'
                   /\ jobId' = j
       /\ (~AwaitingJob /\ AwaitingJob')
             => /\ jobId' > jobsStarted
                /\ statusCalls[jobId'] = 0
       /\ (FinalizeResponseStep /\ lastResponse'.outcome # "success")
             => /\ appState' = "error"
                /\ Len(finalizeCalls') = Len(finalizeCalls) - 1
       /\ (Len(finalizeCalls') > Len(finalizeCalls)) => HandleFinalize]_vars

\* A status query has thrown: the workflow is in error, the job is still the
\* current one and no query for it is outstanding
C28_Witness ==
    /\ lastResponse.call = "status"
    /\ lastResponse.outcome = "throw"
    /\ appState = "error"
    /\ jobId # NoJob
    /\ statusCalls[jobId] = 0

\* C29: a workflow that waits for its job eventually is in editing or error, and
\* a workflow with a finalize call outstanding eventually is in complete or error.
C29_ProcessingTerminates ==
    /\ AwaitingJob ~> (appState \in {"editing", "error"})
    /\ (Len(finalizeCalls) > 0) ~> (appState \in {"complete", "error"})

\* The job answered complete and the workflow left processing for editing
C29_Witness ==
    /\ lastResponse.call = "status"
    /\ lastResponse.outcome = "complete"
    /\ appState = "editing"
    /\ ~isFinalizingClips
    /\ finalizeCalls = <<>>

\* <source src={apiService.getClipUrl(editingClips[currentClipIndex].path)} />
\* of the mounted <video>, NoPath while the placeholder is shown
PreviewAsset(a, clips, i) ==
    IF VideoMountedIn(a, clips, i) THEN ClipAt(clips, i).path ELSE NoPath

\* C30: selecting a clip, from its selector card or by a press on its body in
\* the timeline, makes it the selected clip and in the same step sets
\* currentTime to its editedStart and the preview to its own asset; a preview
\* of another clip's asset is replaced by an element that plays from 0.
C30_SelectClip ==
    [][\A clipIndex \in 0..(Len(editingClips) - 1), clientX \in PointerXs :
        (\/ SelectorClickAt(clipIndex)
         \/ (clipIndex # currentClipIndex /\ ClipMouseDownAt(clipIndex, clientX)))
        => /\ currentClipIndex' = clipIndex
           /\ editingClips' = editingClips
           /\ currentTime' = ClipAt(editingClips, clipIndex).editedStart
           /\ PreviewAsset(appState', editingClips', currentClipIndex')
                = IF EndsWithMp4(ClipAt(editingClips, clipIndex).path)
                  THEN ClipAt(editingClips, clipIndex).path ELSE NoPath
           /\ (PreviewAsset(appState', editingClips', currentClipIndex')
                 # PreviewAsset(appState, editingClips, currentClipIndex))
              => (videoTime' = 0 /\ ~videoLoaded')]_vars

\* The second clip was selected while the first one played: the playhead is at
\* its start and the preview is its asset, not yet loaded
C30_Witness ==
    /\ appState = "editing"
    /\ Len(editingClips) = 2
    /\ currentClipIndex = 1
    /\ ClipAt(editingClips, 1).editedStart > 0
    /\ currentTime = ClipAt(editingClips, 1).editedStart
    /\ PreviewAsset(appState, editingClips, currentClipIndex) = ClipAt(editingClips, 1).path
    /\ ClipAt(editingClips, 1).path # ClipAt(editingClips, 0).path
    /\ ClipAt(editingClips, 1).path # NoPath
    /\ ~videoLoaded
    /\ videoTime = 0
    /\ isDragging.type = "none"

\* The click lies within the span of the selected clip
WithinSelectedClip(clickTime) ==
    /\ HasClip(editingClips, currentClipIndex)
    /\ ClipAt(editingClips, currentClipIndex).editedStart <= clickTime
    /\ clickTime <= ClipAt(editingClips, currentClipIndex).editedEnd

\* C31: a timeline click that no drag and no debounce window suppresses, with
\* the preview mounted, sets currentTime to the clicked position; it seeks the
\* preview to the clicked time minus the selected clip's editedStart if the
\* click lies within that clip's span, and leaves the preview position
\* unchanged otherwise.
C31_TimelineSeek ==
    [][\A clientX \in PointerXs :
        (/\ HandleTimelineClickAt(clientX)
         /\ VideoMounted
         /\ isDragging.type = "none"
         /\ ~isPreventingTimelineClick)
        => /\ currentTime' = DeltaTime(clientX, videoDuration)
           /\ videoTime' =
                IF WithinSelectedClip(DeltaTime(clientX, videoDuration))
                THEN DeltaTime(clientX, videoDuration)
                       - ClipAt(editingClips, currentClipIndex).editedStart
                ELSE videoTime]_vars

\* The request handleFinalize has just sent
SentRequest == finalizeCalls'[Len(finalizeCalls')].edited_clips

\* C32: the finalize request has one entry per clip of the collection, in order,
\* with the clip's current editedStart, editedEnd, captions and style, and its
\* hasCaptionedVersion is true exactly when the clip's path is a captioned asset.
C32_FinalizeRequest ==
    [][(Len(finalizeCalls') > Len(finalizeCalls))
          => /\ Len(SentRequest) = Len(editingClips)
             /\ \A k \in 1..Len(editingClips) :
                   /\ SentRequest[k].id = editingClips[k].id
                   /\ SentRequest[k].editedStart = editingClips[k].editedStart
                   /\ SentRequest[k].editedEnd = editingClips[k].editedEnd
                   /\ SentRequest[k].captions = editingClips[k].captions
                   /\ SentRequest[k].captionStyle = editingClips[k].captionStyle
                   /\ SentRequest[k].hasCaptionedVersion
                        = (editingClips[k].path \in CaptionedUrls)]_vars

\* The display fields of a record are those computed from its edited bounds
DerivedFresh(clip) ==
    /\ clip.startTime = FormatTime(clip.editedStart)
    /\ clip.endTime = FormatTime(clip.editedEnd)
    /\ clip.duration = FormatDuration(clip.editedEnd - clip.editedStart)

\* C33: after a step that changes the editedStart or editedEnd of a clip, the
\* clip's startTime, endTime and duration are those computed from its edited
\* bounds, and so are the ones of every entry of a finalize request.
C33_DerivedFieldsFresh ==
    [][/\ \A k \in 1..Len(editingClips) :
             (/\ k <= Len(editingClips')
              /\ Edits(editingClips'[k]) # Edits(editingClips[k]))
             => DerivedFresh(editingClips'[k])
       /\ (Len(finalizeCalls') > Len(finalizeCalls))
             => \A k \in 1..Len(SentRequest) : DerivedFresh(SentRequest[k])]_vars

\* C34: a complete answer handled while the job's collection is already
\* installed (the workflow is in editing) leaves the collection as it is.
C34_IngestedOnce ==
    [][(/\ PollResponseStep
        /\ lastResponse'.outcome = "complete"
        /\ appState = "editing")
          => editingClips' = editingClips]_vars

\* A call is outstanding or the polling interval is installed
PendingEvent ==
    \/ submitCalls > 0
    \/ TotalStatusCalls(statusCalls) > 0
    \/ finalizeCalls # <<>>
    \/ PollGuard(appState, jobId, isFinalizingClips)

\* The page shows a control of the workflow: the form of the input view, the
\* editing view, or a reset button
UserActionAvailable ==
    \/ appState = "input"
    \/ TimelineMounted
    \/ ResetRendered

\* C35: in every reachable state a user action is available or an event is
\* pending; in editing with no clips and in complete with no finalized clips a
\* reset button is rendered.
C35_NoDeadState ==
    /\ PendingEvent \/ UserActionAvailable
    /\ (appState = "editing" /\ editingClips = <<>>) => ResetRendered
    /\ (appState = "complete" /\ finalizedClips = <<>>) => ResetRendered

\* No finalize call of the current job is outstanding
NoFinalizeOfJob == \A k \in 1..Len(finalizeCalls) : finalizeCalls[k].jobId # jobId

\* C36: isFinalizingClips is true exactly while a finalize call is outstanding,
\* and it blocks neither the polling nor the finalize of a job that has no
\* finalize call outstanding.
C36_FlagTracksFinalize ==
    /\ isFinalizingClips <=> (finalizeCalls # <<>>)
    /\ (appState = "processing" /\ jobId # NoJob /\ NoFinalizeOfJob)
          => PollGuard(appState, jobId, isFinalizingClips)
    /\ (jobId # NoJob /\ NoFinalizeOfJob) => ~FinalizeIgnored

\* The fields of a clip that handleCaptionsApplied does not assign
KeptByApply(clip) ==
    [field \in (DOMAIN clip) \ {"captions", "captionStyle", "path", "originalPath"}
        |-> clip[field]]

\* C37: the completion of an apply call leaves the edited bounds of every clip
\* and every field of the clips with another id unchanged, changes at most
\* captions, captionStyle, path and originalPath of the clip with the submitted
\* id, and changes nothing when the call was made for another job than the
\* current one.
C37_ApplyFrame ==
    [][ApplyResponseStep
          => LET call == lastResponse'.clips[1]
             IN /\ Len(editingClips') = Len(editingClips)
                /\ \A k \in 1..Len(editingClips) :
                      /\ Edits(editingClips'[k]) = Edits(editingClips[k])
                      /\ KeptByApply(editingClips'[k]) = KeptByApply(editingClips[k])
                      /\ (editingClips[k].id # call.clipId)
                            => editingClips'[k] = editingClips[k]
                /\ (call.jobId # jobId) => editingClips' = editingClips]_vars

\* C38: a move event of a gesture leaves captions, captionStyle, path and
\* originalPath of every clip, and every field of the clips other than the
\* dragged one, as they are at the time of the event.
C38_MoveKeepsConcurrentUpdates ==
    [][\A clientX \in PointerXs :
        (/\ MouseMoveAt(clientX)
         /\ TimelineMounted
         /\ Len(listeners) = 1)
        => /\ Len(editingClips') = Len(editingClips)
           /\ \A k \in 1..Len(editingClips) :
                 /\ editingClips'[k].captions = editingClips[k].captions
                 /\ editingClips'[k].captionStyle = editingClips[k].captionStyle
                 /\ editingClips'[k].path = editingClips[k].path
                 /\ editingClips'[k].originalPath = editingClips[k].originalPath
                 /\ (k - 1 # listeners[1].clipIndex)
                       => editingClips'[k] = editingClips[k]]_vars

\* The captions stored on the clips of the collection
StoredCaptions == [k \in 1..Len(editingClips) |-> editingClips[k].captions]

\* C39: editing a segment's text and closing the editor change nothing in the
\* captions stored on the clips, so that after a close without apply they are
\* what they were when the editor was opened; saving a text leaves the start
\* and end of every segment of the editor.
C39_EditsLocalUntilApplied ==
    [][/\ (StartEditing \/ ChangeEditingText \/ SaveEdit \/ CancelEdit \/ CloseCaptions)
            => StoredCaptions' = StoredCaptions
       /\ SaveEdit
            => SegmentTimes(captionsModal'.captions)
                 = SegmentTimes(captionsModal.captions)]_vars

====
